---- MODULE Spec2Model ----
(***************************************************************************)
(* The Game of Life grid engine of src/src/game_of_life.rs, used by one     *)
(* caller that makes one call at a time.  Spec is the engine under any     *)
(* sequence of calls; MainSpec is the program of src/src/main.rs, which    *)
(* builds a random grid and steps and renders it once per frame.           *)
(*                                                                         *)
(* A Grid is the record [width, height, cells]; cells is the Vec, a        *)
(* sequence indexed from 1, so the Rust index i is cells[i + 1].  Every     *)
(* method taking &self is an operator whose first parameter g is the grid. *)
(*                                                                         *)
(* Integers: Coord is i32 and TLC's integers are 32-bit with checked       *)
(* overflow, so +, * on coordinates are Rust's checked i32 operations: a   *)
(* run in which an i32 operation overflowed would end in a TLC error.      *)
(* Every usize the model builds is below 2^31, where `as i32` keeps the    *)
(* value; `as usize` of a negative i32 wraps and is modelled by AsUsize.   *)
(* A Rust panic (index out of range, division by zero) is the value Panic  *)
(* and is propagated by every caller.                                      *)
(***************************************************************************)
EXTENDS Integers, Sequences, FiniteSets

\* width, height, cells: the fields of the Grid.  ctor: the constructor call
\* that built it.  call: the call that has just returned.  panicked: a call
\* has panicked.  host: the frames the callback of main has run, the lines it
\* last handed to the frame, and the cells new_random gave it.
VARIABLES width, height, cells, ctor, call, panicked, host

vars == <<width, height, cells, ctor, call, panicked, host>>

(* ---------------------------- bounds ----------------------------------- *)

\* Largest width and largest height of a constructed grid.
MaxSide == 3
\* Largest number of cells of a constructed grid.
MaxCells == 9
\* How far outside 0..MaxSide the coordinates of a queried Point range.
Slack == 2
\* Largest number of frames the host's callback is followed for.
MaxFrames == 3
\* Largest alive count, and largest dead count, handed to get_cell_state directly.
MaxTally == 9
MaxDeadTally == 1

(* ---------------------------- values ----------------------------------- *)

Alive == "Alive"
Dead == "Dead"
CellState == {Alive, Dead}

Point(x, y) == [x |-> x, y |-> y]

NORTH == Point(0, -1)
NORTH_EAST == Point(1, -1)
EAST == Point(1, 0)
SOUTH_EAST == Point(1, 1)
SOUTH == Point(0, 1)
SOUTH_WEST == Point(-1, 1)
WEST == Point(-1, 0)
NORTH_WEST == Point(-1, -1)

ORTHO_PLUS_DIR ==
  <<NORTH, NORTH_EAST, EAST, SOUTH_EAST, SOUTH, SOUTH_WEST, WEST, NORTH_WEST>>

\* Point addition with rhs.x added to both coordinates.
add_x_twice(self, rhs) == Point(self.x + rhs.x, self.y + rhs.x)

add(self, rhs) == Point(self.x + rhs.x, self.y + rhs.y)

NeighbourState(alive, dead) == [alive |-> alive, dead |-> dead]

Grid(w, h, cs) == [width |-> w, height |-> h, cells |-> cs]

\* Option<&T>, a value returned normally, and the outcome of a panicking call.
Some(c) == [tag |-> "Some", val |-> c]
None == [tag |-> "None", val |-> "-"]
Ok(v) == [tag |-> "Ok", val |-> v]
Panic == [tag |-> "Panic", val |-> "-"]

\* i32::MAX, the largest Coord.
I32Max == 2147483647
\* What `as usize` makes of a negative i32: 2^64 + n, a usize beyond the
\* length of every Vec.
UsizeWrapped == I32Max
\* `n as usize` for an i32 n.
AsUsize(n) == IF n >= 0 THEN n ELSE UsizeWrapped
\* `n as i32` for a usize n: the low 32 bits, n itself up to i32::MAX.
AsI32(n) == IF n <= I32Max THEN n ELSE (n - I32Max) - I32Max - 2

(* ------------------------ Grid<T> methods ------------------------------ *)

\* contains with <= for the upper limits.
contains_inclusive(g, p) ==
  /\ p.x >= 0
  /\ AsUsize(p.x) <= g.width
  /\ p.y >= 0
  /\ AsUsize(p.y) <= g.height

\* contains checking the linear index instead of each coordinate.
contains_linear(g, p) ==
  LET i == AsI32(g.width) * p.y + p.x
  IN i >= 0 /\ i < g.width * g.height

contains(g, p) ==
  /\ p.x >= 0
  /\ AsUsize(p.x) < g.width
  /\ p.y >= 0
  /\ AsUsize(p.y) < g.height

\* pos with the quotient as x and the remainder as y.
pos_swapped(g, p) ==
  IF g.width = 0 THEN Panic
  ELSE Point(AsI32(p \div g.width), AsI32(p % g.width))

\* p % width and p / width panic when width is 0.
pos(g, p) ==
  IF g.width = 0 THEN Panic
  ELSE Point(AsI32(p % g.width), AsI32(p \div g.width))

\* idx with the coordinates exchanged.
idx_transposed(g, p) == AsUsize(AsI32(g.width) * p.x + p.y)

idx(g, p) == AsUsize(AsI32(g.width) * p.y + p.x)

\* Vec indexing: cells[i] panics unless i < cells.len().
VecIndex(cs, i) == IF i >= 0 /\ i < Len(cs) THEN Ok(cs[i + 1]) ELSE Panic

index(g, p) == VecIndex(g.cells, idx(g, p))

\* try_get without the contains check.
try_get_unchecked(g, p) ==
  LET c == index(g, p) IN IF c = Panic THEN Panic ELSE Some(c.val)

try_get(g, p) ==
  IF contains(g, p)
  THEN LET c == index(g, p) IN IF c = Panic THEN Panic ELSE Some(c.val)
  ELSE None

(* --------------------- Grid<CellState> methods ------------------------- *)

new_empty(w, h) ==
  LET size == w * h
  IN Grid(w, h, [i \in 1..size |-> Dead])

\* Every grid new_random(w, h) can return: fastrand::bool() picks each cell.
new_random(w, h) ==
  LET size == w * h
  IN {Grid(w, h, cs) : cs \in [1..size -> CellState]}

\* get_cell_state without the overpopulation row: the catch-all keeps the cell.
get_cell_state_no_overpopulation(cell, state) ==
  CASE cell = Alive /\ state.alive \in 0..1 -> Dead
    [] cell = Alive /\ state.alive \in 2..3 -> Alive
    [] cell = Dead /\ state.alive = 3 -> Alive
    [] OTHER -> cell

\* get_cell_state in which an Alive cell survives with 2 Alive neighbours only.
get_cell_state_survive_two_only(cell, state) ==
  CASE cell = Alive /\ state.alive \in 0..1 -> Dead
    [] cell = Alive /\ state.alive = 2 -> Alive
    [] cell = Alive /\ state.alive \in 3..8 -> Dead
    [] cell = Dead /\ state.alive = 3 -> Alive
    [] OTHER -> cell

\* get_cell_state with a birth for every count up to 3.
get_cell_state_birth_up_to_three(cell, state) ==
  CASE cell = Alive /\ state.alive \in 0..1 -> Dead
    [] cell = Alive /\ state.alive \in 2..3 -> Alive
    [] cell = Alive /\ state.alive \in 4..8 -> Dead
    [] cell = Dead /\ state.alive \in 0..3 -> Alive
    [] OTHER -> cell

get_cell_state(cell, state) ==
  CASE cell = Alive /\ state.alive \in 0..1 -> Dead
    [] cell = Alive /\ state.alive \in 2..3 -> Alive
    [] cell = Alive /\ state.alive \in 4..8 -> Dead
    [] cell = Dead /\ state.alive = 3 -> Alive
    [] OTHER -> cell

\* get_neighbours that also yields the point itself.
get_neighbours_with_self(g, point) ==
  SelectSeq([i \in 1..(Len(ORTHO_PLUS_DIR) + 1) |->
               IF i <= Len(ORTHO_PLUS_DIR) THEN add(point, ORTHO_PLUS_DIR[i]) ELSE point],
            LAMBDA p : contains(g, p))

\* get_neighbours over the four orthogonal directions only.
get_neighbours_orthogonal(g, point) ==
  SelectSeq([i \in 1..4 |-> add(point, ORTHO_PLUS_DIR[2 * i - 1])],
            LAMBDA p : contains(g, p))

\* ORTHO_PLUS_DIR.into_iter().map(|d| point + d).filter(|p| self.contains(p))
get_neighbours(g, point) ==
  SelectSeq([i \in 1..Len(ORTHO_PLUS_DIR) |-> add(point, ORTHO_PLUS_DIR[i])],
            LAMBDA p : contains(g, p))

\* The for loop of get_neighbours_state over ns[i..], with the counters so far.
RECURSIVE tally_loop(_, _, _, _, _)
tally_loop(g, ns, i, alive, dead) ==
  IF i > Len(ns) THEN Ok(NeighbourState(alive, dead))
  ELSE LET neighbour == try_get(g, ns[i])
       IN CASE neighbour = Panic -> Panic
            [] neighbour = None -> tally_loop(g, ns, i + 1, alive, dead)
            [] neighbour = Some(Alive) -> tally_loop(g, ns, i + 1, alive + 1, dead)
            [] neighbour = Some(Dead) -> tally_loop(g, ns, i + 1, alive, dead + 1)

get_neighbours_state(g, point) ==
  tally_loop(g, get_neighbours(g, point), 1, 0, 0)

\* update_states writing each new state into the grid it is still reading.
RECURSIVE update_loop_in_place(_, _, _)
update_loop_in_place(g, i, new_grid) ==
  IF i >= Len(g.cells) THEN Ok(new_grid)
  ELSE LET cell == g.cells[i + 1]
           point == pos(g, i)
           state == IF point = Panic THEN Panic ELSE get_neighbours_state(g, point)
       IN IF state = Panic THEN Panic
          ELSE LET cellstate == get_cell_state(cell, state.val)
               IN update_loop_in_place([g EXCEPT !.cells[i + 1] = cellstate], i + 1,
                                       Append(new_grid, cellstate))

\* update_states stopping one cell short of the end.
RECURSIVE update_loop_skip_last(_, _, _)
update_loop_skip_last(g, i, new_grid) ==
  IF i + 1 >= Len(g.cells) THEN Ok(new_grid)
  ELSE LET cell == g.cells[i + 1]
           point == pos(g, i)
           state == IF point = Panic THEN Panic ELSE get_neighbours_state(g, point)
       IN IF state = Panic THEN Panic
          ELSE update_loop_skip_last(g, i + 1,
                                     Append(new_grid, get_cell_state(cell, state.val)))

\* The for loop of update_states from cell idx on: new_grid is the Vec pushed so
\* far, and every read goes to g, the grid as it was when the call began.
RECURSIVE update_loop(_, _, _)
update_loop(g, i, new_grid) ==
  IF i >= Len(g.cells) THEN Ok(new_grid)
  ELSE LET cell == g.cells[i + 1]
           point == pos(g, i)
           state == IF point = Panic THEN Panic ELSE get_neighbours_state(g, point)
       IN IF state = Panic THEN Panic
          ELSE update_loop(g, i + 1, Append(new_grid, get_cell_state(cell, state.val)))

CountAlive(cs) == Cardinality({i \in 1..Len(cs) : cs[i] = Alive})

\* update_states counting the Alive cells of the grid it was called on.
update_states_counts_before(g) ==
  LET new_grid == update_loop(g, 0, <<>>)
  IN IF new_grid = Panic THEN Panic
     ELSE Ok([cells |-> new_grid.val, ret |-> CountAlive(g.cells)])

\* The cells after the call and the value returned, or Panic.
update_states(g) ==
  LET new_grid == update_loop(g, 0, <<>>)
  IN IF new_grid = Panic THEN Panic
     ELSE Ok([cells |-> new_grid.val, ret |-> CountAlive(new_grid.val)])

\* Display for CellState.
Glyph(c) == IF c = Dead THEN " " ELSE "0"

\* Display for Grid joining the rows with line breaks: none after the last row.
RECURSIVE fmt_loop_no_final_break(_, _, _, _)
fmt_loop_no_final_break(g, row, w, out) ==
  IF row >= g.height THEN Ok(out)
  ELSE IF w >= (row + 1) * g.width
       THEN fmt_loop_no_final_break(g, row + 1, (row + 1) * g.width,
                                    IF row + 1 < g.height THEN Append(out, "\n") ELSE out)
       ELSE LET c == VecIndex(g.cells, w)
            IN IF c = Panic THEN Panic
               ELSE fmt_loop_no_final_break(g, row, w + 1, Append(out, Glyph(c.val)))

\* Display for Grid: the text written, one string per character, from row `row`
\* and cell w of it on; out is the text so far.
RECURSIVE fmt_loop(_, _, _, _)
fmt_loop(g, row, w, out) ==
  IF row >= g.height THEN Ok(out)
  ELSE IF w >= (row + 1) * g.width
       THEN fmt_loop(g, row + 1, (row + 1) * g.width, Append(out, "\n"))
       ELSE LET c == VecIndex(g.cells, w)
            IN IF c = Panic THEN Panic
               ELSE fmt_loop(g, row, w + 1, Append(out, Glyph(c.val)))

fmt(g) == fmt_loop(g, 0, 0, <<>>)

\* The glyphs of the string test_grid_display expects, and that string for the
\* 3x3 grid whose only Alive cell is the centre.
TestDeadGlyph == "skull"
TestAliveGlyph == "halo-face"
test_grid_display_expected ==
  <<TestDeadGlyph, TestDeadGlyph, TestDeadGlyph, "\n",
    TestDeadGlyph, TestAliveGlyph, TestDeadGlyph, "\n",
    TestDeadGlyph, TestDeadGlyph, TestDeadGlyph, "\n">>

(* ------------------------ the host, main.rs ---------------------------- *)

\* str::lines: the text cut at its line breaks, the breaks dropped; a last
\* line without a break is kept unless it is empty.
RECURSIVE lines_loop(_, _, _, _)
lines_loop(text, i, line, acc) ==
  IF i > Len(text) THEN (IF line = <<>> THEN acc ELSE Append(acc, line))
  ELSE IF text[i] = "\n" THEN lines_loop(text, i + 1, <<>>, Append(acc, line))
       ELSE lines_loop(text, i + 1, Append(line, text[i]), acc)

lines(text) == lines_loop(text, 1, <<>>, <<>>)

\* render_game_of_life rendering the grid before it steps it.
render_game_of_life_render_first(g) ==
  LET grid_out == fmt(g)
      r == update_states(g)
  IN IF r = Panic \/ grid_out = Panic THEN Panic
     ELSE Ok([cells |-> r.val.cells, shown |-> lines(grid_out.val)])

\* render_game_of_life: the cells it leaves in the grid and the lines of the
\* Paragraph it hands to the frame, or Panic.
render_game_of_life(g) ==
  LET r == update_states(g)
  IN IF r = Panic THEN Panic
     ELSE LET grid_out == fmt(Grid(g.width, g.height, r.val.cells))
          IN IF grid_out = Panic THEN Panic
             ELSE Ok([cells |-> r.val.cells, shown |-> lines(grid_out.val)])

(* --------------------------- the state --------------------------------- *)

self == Grid(width, height, cells)

Sides == 0..MaxSide
Coords == (0 - Slack)..(MaxSide + Slack)
Points == {Point(x, y) : x \in Coords, y \in Coords}
Tallies == {NeighbourState(a, d) : a \in 0..MaxTally, d \in 0..MaxDeadTally}

\* The caller holds no returned value.
Idle == [op |-> "-"]

\* The host's callback is not installed: no frame, nothing shown.
NoHost == [frames |-> 0, shown |-> None, built |-> <<>>]

\* The grid is the one a constructor returned; ctor keeps the constructor's
\* name and arguments. call is the call that has just returned, with its
\* arguments and what it returned, until the caller drops it.
Constructed(op, w, h, g) ==
  /\ width = g.width
  /\ height = g.height
  /\ cells = g.cells
  /\ ctor = [op |-> op, w |-> w, h |-> h]
  /\ call = Idle
  /\ panicked = FALSE

NewEmpty ==
  \E w \in Sides, h \in Sides :
    /\ w * h <= MaxCells
    /\ Constructed("new_empty", w, h, new_empty(w, h))
    /\ host = NoHost

NewRandom ==
  \E w \in Sides, h \in Sides :
    /\ w * h <= MaxCells
    /\ \E g \in new_random(w, h) : Constructed("new_random", w, h, g)
    /\ host = NoHost

Init == NewEmpty \/ NewRandom

\* A call that only reads the grid: its result, or the panic that ends the run.
Returned(op, arg, r) ==
  /\ call = Idle
  /\ call' = [op |-> op, arg |-> arg, ret |-> r]
  /\ panicked' = (r = Panic)
  /\ UNCHANGED <<width, height, cells, ctor, host>>

TryGet ==
  \E p \in Points :
    /\ ~panicked
    /\ Returned("try_get", p, try_get(self, p))

GetNeighboursState ==
  \E p \in Points :
    /\ ~panicked
    /\ Returned("get_neighbours_state", p, get_neighbours_state(self, p))

GetCellState ==
  \E cell \in CellState, state \in Tallies :
    /\ ~panicked
    /\ Returned("get_cell_state", [cell |-> cell, state |-> state],
                Ok(get_cell_state(cell, state)))

Display ==
  /\ ~panicked
  /\ Returned("fmt", "-", fmt(self))

UpdateStates ==
  /\ ~panicked
  /\ call = Idle
  /\ LET r == update_states(self)
     IN /\ call' = [op |-> "update_states", before |-> cells, ret |-> r]
        /\ panicked' = (r = Panic)
        /\ cells' = IF r = Panic THEN cells ELSE r.val.cells
        /\ UNCHANGED <<width, height, ctor, host>>

\* The caller is done with the value returned and goes on.
Drop ==
  /\ ~panicked
  /\ call # Idle
  /\ call' = Idle
  /\ UNCHANGED <<width, height, cells, ctor, panicked, host>>

Next ==
  \/ TryGet
  \/ GetNeighboursState
  \/ GetCellState
  \/ Display
  \/ UpdateStates
  \/ Drop

Spec == Init /\ [][Next]_vars

\* main: the grid is new_random of the terminal's size, and the callback of
\* render_on_web owns it from then on.
MainInit ==
  \E w \in Sides, h \in Sides :
    /\ w * h <= MaxCells
    /\ \E g \in new_random(w, h) :
         /\ Constructed("new_random", w, h, g)
         /\ host = [frames |-> 0, shown |-> None, built |-> g.cells]

\* One invocation of the callback: render_game_of_life(&mut grid, frame).
Frame ==
  /\ ~panicked
  /\ host.frames < MaxFrames
  /\ LET r == render_game_of_life(self)
     IN /\ panicked' = (r = Panic)
        /\ cells' = IF r = Panic THEN cells ELSE r.val.cells
        /\ host' = IF r = Panic THEN host
                   ELSE [host EXCEPT !.frames = @ + 1, !.shown = Some(r.val.shown)]
        /\ UNCHANGED <<width, height, ctor, call>>

MainNext == Frame

MainSpec == MainInit /\ [][MainNext]_vars


(* ------------------- what the claims are stated with ------------------- *)

\* 0 <= p.x < w and 0 <= p.y < h.
InGrid(w, h, p) == p.x \in 0..(w - 1) /\ p.y \in 0..(h - 1)
\* The cell of the row-major sequence cs stored for p.
CellAt(cs, w, p) == cs[p.y * w + p.x + 1]
\* The points of a w x h grid.
GridPoints(w, h) == {Point(x, y) : x \in 0..(w - 1), y \in 0..(h - 1)}
\* The in-bounds points at the 8 compass offsets of p.
Around(w, h, p) ==
  {q \in {Point(p.x + dx, p.y + dy) : dx \in -1..1, dy \in -1..1} :
     q # p /\ InGrid(w, h, q)}
\* How many of them hold c.
CountAround(cs, w, h, p, c) ==
  Cardinality({q \in Around(w, h, p) : CellAt(cs, w, q) = c})
\* The transition table.
Rule(c, n) ==
  IF c = Alive THEN (IF n \in {2, 3} THEN Alive ELSE Dead)
  ELSE (IF n = 3 THEN Alive ELSE Dead)
\* The 3x3 grid whose Alive cells are those with the linear indices in S.
Is3x3With(S) ==
  /\ width = 3
  /\ height = 3
  /\ cells = [i \in 1..9 |-> IF (i - 1) \in S THEN Alive ELSE Dead]

(* ------------------------------ claims --------------------------------- *)

\* C1: update_states is a synchronous update: after the call, the cell at every
\* in-bounds p is get_cell_state(the cell at p before the call, the neighbour
\* tally of p on the grid as it was before the call).
C1_SynchronousUpdate ==
  call.op = "update_states" =>
    /\ call.ret.tag = "Ok"
    /\ LET before == Grid(width, height, call.before)
       IN \A p \in GridPoints(width, height) :
            CellAt(cells, width, p) =
              get_cell_state(CellAt(call.before, width, p),
                             get_neighbours_state(before, p).val)

\* A step in which a cell is decided by the old value of a cell scanned before
\* it: in the top row of three, (0,0) dies and (1,0) still counts it and lives.
C1_Witness ==
  /\ call.op = "update_states"
  /\ width = 3 /\ height = 3
  /\ call.before = <<Alive, Alive, Alive, Dead, Dead, Dead, Dead, Dead, Dead>>
  /\ cells = <<Dead, Alive, Dead, Dead, Alive, Dead, Dead, Dead, Dead>>

\* C2: get_cell_state follows the transition table for both states and every
\* alive count in 0..8, whatever the dead count.
C2_TransitionTable ==
  (call.op = "get_cell_state" /\ call.arg.state.alive \in 0..8) =>
    call.ret = Ok(Rule(call.arg.cell, call.arg.state.alive))

\* An overpopulated Alive cell, with a dead count that is not 0, dies.
C2_Witness ==
  /\ call.op = "get_cell_state"
  /\ call.arg = [cell |-> Alive, state |-> NeighbourState(5, 1)]
  /\ call.ret = Ok(Dead)

\* C3: cells.len() = width * height after construction and after every
\* update_states, and width and height stay the constructor's arguments.
C3_LenIsWidthTimesHeight ==
  /\ Len(cells) = width * height
  /\ width = ctor.w
  /\ height = ctor.h

\* A 2x3 grid of new_random that update_states has changed.
C3_Witness ==
  /\ ctor = [op |-> "new_random", w |-> 2, h |-> 3]
  /\ call.op = "update_states"
  /\ call.before # cells
  /\ Len(cells) = 6

\* C4: try_get(p) is no value when p is out of bounds and the cell at linear
\* index p.y * width + p.x when it is in bounds; contains(p) is true exactly
\* when 0 <= p.x < width and 0 <= p.y < height.
C4_TryGet ==
  call.op = "try_get" =>
    LET p == call.arg
    IN /\ contains(self, p) <=> InGrid(width, height, p)
       /\ call.ret = IF InGrid(width, height, p)
                     THEN Some(CellAt(cells, width, p))
                     ELSE None

\* try_get((2,1)) on a 3x2 grid returns the Alive cell of index 5, where the
\* index 3 * 2 + 1 does not exist.
C4_Witness ==
  /\ call.op = "try_get"
  /\ width = 3 /\ height = 2
  /\ call.arg = Point(2, 1)
  /\ cells = <<Dead, Dead, Dead, Dead, Dead, Alive>>
  /\ call.ret = Some(Alive)

\* C5: no call of try_get, get_neighbours_state or update_states reads cells
\* out of range (the read that would is the panic of VecIndex), and every point
\* that contains accepts has its index inside cells (a fact of the grid alone,
\* stated of every grid as it is built and as update_states leaves it).
C5_NoOutOfRangeRead ==
  /\ ~panicked
  /\ call.op \in {"try_get", "get_neighbours_state", "update_states"} =>
       call.ret.tag # "Panic"
  /\ call.op \in {"-", "update_states"} =>
       \A p \in Points :
         contains(self, p) => idx(self, p) \in 0..(Len(cells) - 1)

\* try_get of the point one past the last column returns no value.
C5_Witness ==
  /\ call.op = "try_get"
  /\ width = 3 /\ height = 3
  /\ call.arg = Point(3, 2)
  /\ call.ret = None

\* C6: get_neighbours_state(p) counts the in-bounds cells at the 8 compass
\* offsets of p, never p itself: alive is how many are Alive, dead how many are
\* Dead, and an off-grid position adds to neither.
C6_NeighbourTally ==
  call.op = "get_neighbours_state" =>
    call.ret = Ok(NeighbourState(CountAround(cells, width, height, call.arg, Alive),
                                 CountAround(cells, width, height, call.arg, Dead)))

\* The 3x3 grid whose only Alive cell is (1,0): the tally at the corner (0,0)
\* is alive = 1, dead = 2.
C6_Witness ==
  /\ call.op = "get_neighbours_state"
  /\ Is3x3With({1})
  /\ call.arg = Point(0, 0)
  /\ call.ret = Ok(NeighbourState(1, 2))

\* p touches no edge of the grid.
Interior(w, h, p) == p.x \in 1..(w - 2) /\ p.y \in 1..(h - 2)

\* C7: alive + dead of get_neighbours_state(p) is the number of in-bounds
\* neighbours of p, at most 8: 8 for an interior point, less than 8 for an
\* in-bounds point on an edge, 0 for a point with no neighbour in bounds.
C7_TallySum ==
  call.op = "get_neighbours_state" =>
    /\ call.ret.tag = "Ok"
    /\ LET p == call.arg
           sum == call.ret.val.alive + call.ret.val.dead
       IN /\ sum = Cardinality(Around(width, height, p))
          /\ sum <= 8
          /\ Interior(width, height, p) => sum = 8
          /\ (InGrid(width, height, p) /\ ~Interior(width, height, p)) => sum < 8
          /\ (\A q \in Around(width, height, p) : FALSE) => sum = 0

\* The centre of a 3x3 grid has all 8 neighbours, some of each state.
C7_Witness ==
  /\ call.op = "get_neighbours_state"
  /\ width = 3 /\ height = 3
  /\ call.arg = Point(1, 1)
  /\ call.ret = Ok(NeighbourState(3, 5))

\* C8 as stated: in the 3x3 grid whose only Alive cell is (0,0),
\* get_neighbours_state((0,0)) returns alive = 0, dead = 2.
C8_CornerTallyAsStated ==
  (call.op = "get_neighbours_state" /\ Is3x3With({0}) /\ call.arg = Point(0, 0)) =>
    call.ret = Ok(NeighbourState(0, 2))

\* C8, amended: in the 3x3 grid whose only Alive cell is (0,0),
\* get_neighbours_state((0,0)) returns alive = 0, dead = 3: the corner has 3
\* in-bounds neighbours, (1,0), (1,1) and (0,1), itself excluded, all Dead.
C8_CornerTally ==
  (call.op = "get_neighbours_state" /\ Is3x3With({0}) /\ call.arg = Point(0, 0)) =>
    call.ret = Ok(NeighbourState(0, 3))

\* get_neighbours_state((0,0)) has returned on that grid.
C8_Witness ==
  /\ call.op = "get_neighbours_state"
  /\ Is3x3With({0})
  /\ call.arg = Point(0, 0)
  /\ call.ret.tag = "Ok"

\* C9: update_states returns the number of Alive cells of the grid after the
\* update.
C9_ReturnsAliveAfter ==
  call.op = "update_states" =>
    /\ call.ret.tag = "Ok"
    /\ call.ret.val.ret = Cardinality({i \in 1..Len(cells) : cells[i] = Alive})

\* A step from 3 Alive cells to 4: the value returned is 4.
C9_Witness ==
  /\ call.op = "update_states"
  /\ call.before = <<Alive, Dead, Dead, Alive, Alive, Dead, Dead, Dead, Dead>>
  /\ cells = <<Alive, Alive, Dead, Alive, Alive, Dead, Dead, Dead, Dead>>
  /\ call.ret.val.ret = 4

\* C10: on a grid with width = 0 or height = 0 nothing panics: cells is empty,
\* contains is false and try_get no value for every point, every tally is
\* (0, 0), update_states returns 0 and leaves cells empty, and rendering
\* writes one line break per row and nothing else.
C10_ZeroSizedGrid ==
  (width = 0 \/ height = 0) =>
    /\ ~panicked
    /\ cells = <<>>
    /\ \A p \in Points : ~contains(self, p)
    /\ call.op = "try_get" => call.ret = None
    /\ call.op = "get_neighbours_state" => call.ret = Ok(NeighbourState(0, 0))
    /\ call.op = "update_states" => call.ret = Ok([cells |-> <<>>, ret |-> 0])
    /\ call.op = "fmt" => call.ret = Ok([i \in 1..height |-> "\n"])

\* update_states has returned 0 on a grid of width 0 and height 2.
C10_Witness ==
  /\ width = 0 /\ height = 2
  /\ ctor.op = "new_random"
  /\ call.op = "update_states"
  /\ call.ret = Ok([cells |-> <<>>, ret |-> 0])

\* The text of a rendering: H rows, each of W glyphs in row-major order and
\* then a line break, "0" for an Alive cell and a space for a Dead one.
IsRendering(out, w, h, cs) ==
  /\ Len(out) = h * (w + 1)
  /\ Cardinality({k \in 1..Len(out) : out[k] = "\n"}) = h
  /\ \A y \in 0..(h - 1) :
       /\ out[y * (w + 1) + w + 1] = "\n"
       /\ \A x \in 0..(w - 1) :
            out[y * (w + 1) + x + 1] = IF cs[y * w + x + 1] = Alive THEN "0" ELSE " "

C12_DisplayMatchesTest ==
  (call.op = "fmt" /\ Is3x3With({4})) => call.ret = Ok(test_grid_display_expected)

\* The linear indices of the 2x2 block in each corner of a 3x3 grid.
CornerBlocks == {{0, 1, 3, 4}, {1, 2, 4, 5}, {3, 4, 6, 7}, {4, 5, 7, 8}}

\* C14: a 3x3 grid whose only Alive cells are a 2x2 block in a corner is a
\* still life: update_states leaves the cells as they were and returns 4 (and
\* so does every later call, the grid being the same again).
C14_BlockIsStillLife ==
  (/\ call.op = "update_states"
   /\ width = 3 /\ height = 3
   /\ \E S \in CornerBlocks :
        call.before = [i \in 1..9 |-> IF (i - 1) \in S THEN Alive ELSE Dead]) =>
    /\ cells = call.before
    /\ call.ret.tag = "Ok"
    /\ call.ret.val.ret = 4

\* update_states has run on the block of the bottom right corner.
C14_Witness ==
  /\ call.op = "update_states"
  /\ call.before = <<Dead, Dead, Dead, Dead, Alive, Alive, Dead, Alive, Alive>>
  /\ Is3x3With({4, 5, 7, 8})
  /\ call.ret.val.ret = 4

\* Generation n of the grid g: g after n update_states.
RECURSIVE Generation(_, _)
Generation(g, n) ==
  IF n = 0 THEN g
  ELSE Grid(g.width, g.height, update_states(Generation(g, n - 1)).val.cells)

\* The rows of a grid, as lines of glyphs.
RowsOf(g) ==
  [y \in 1..g.height |->
     [x \in 1..g.width |-> IF g.cells[(y - 1) * g.width + x] = Alive THEN "0" ELSE " "]]

\* C15: each invocation of the frame callback steps the grid once and then
\* renders it: before the first frame nothing is shown, and what the n-th frame
\* shows (n >= 1) is generation n of the grid new_random built, which is the
\* grid's state after that frame; generation 0 is never what a frame renders.
C15_FrameShowsGenerationN ==
  LET built == Grid(width, height, host.built)
  IN /\ host.frames = 0 => host.shown = None
     /\ host.frames >= 1 =>
          /\ cells = Generation(built, host.frames).cells
          /\ host.shown = Some(RowsOf(Generation(built, host.frames)))

\* The second frame of a 3x3 grid whose generations 0, 1 and 2 all differ.
C15_Witness ==
  /\ host.frames = 2
  /\ width = 3 /\ height = 3
  /\ host.built = <<Alive, Alive, Alive, Dead, Dead, Dead, Dead, Dead, Dead>>
  /\ host.shown = Some(<< <<" ", " ", " ">>, <<" ", " ", " ">>, <<" ", " ", " ">> >>)

\* cs with the cell of p changed to the other state.
Flipped(cs, w, p) ==
  [cs EXCEPT ![p.y * w + p.x + 1] = IF @ = Alive THEN Dead ELSE Alive]

\* C16: locality without wraparound. Changing one cell q of the grid that is
\* neither p nor at one of the 8 compass offsets of p does not change the cell
\* update_states computes for p. (Two grids that agree on p and on its in-bounds
\* neighbours differ in such cells only, and one is reached from the other by
\* changing them one at a time, so this is the claim for every pair of grids.)
\* For p on the left edge, the cell of linear index one less is such a q in
\* every grid more than 2 wide.
C16_Locality ==
  call.op = "update_states" =>
    \A q \in GridPoints(width, height) :
      LET other == update_states(Grid(width, height, Flipped(call.before, width, q)))
      IN /\ other.tag = "Ok"
         /\ \A p \in GridPoints(width, height) :
              (p # q /\ q \notin Around(width, height, p)) =>
                CellAt(other.val.cells, width, p) = CellAt(cells, width, p)

\* (0,1) has two Alive neighbours, (0,0) and (0,2), and the end of the row
\* above it, (2,0), is Alive too: (0,1) stays Dead.
C16_Witness ==
  /\ call.op = "update_states"
  /\ width = 3 /\ height = 3
  /\ call.before = <<Alive, Dead, Alive, Dead, Dead, Dead, Alive, Dead, Dead>>
  /\ CellAt(cells, 3, Point(0, 1)) = Dead
  /\ cells = <<Dead, Dead, Dead, Dead, Alive, Dead, Dead, Dead, Dead>>

AllDead(cs) == \A i \in 1..Len(cs) : cs[i] = Dead

\* C17: the all-Dead grid is absorbing: from a state in which every cell is
\* Dead every step leads to one in which every cell is Dead, and an
\* update_states made there returns 0.
C17_AllDeadIsAbsorbing ==
  [][AllDead(cells) =>
       /\ AllDead(cells')
       /\ (call.op # "update_states" /\ call'.op = "update_states") =>
            call'.ret = Ok([cells |-> cells, ret |-> 0])]_vars

\* update_states has returned 0 on the 3x3 grid of new_empty.
C17_Witness ==
  /\ ctor = [op |-> "new_empty", w |-> 3, h |-> 3]
  /\ call.op = "update_states"
  /\ AllDead(call.before)
  /\ AllDead(cells)
  /\ call.ret.val.ret = 0

\* C18: with width > 0, idx and pos are inverse: idx(p) = width * p.y + p.x is
\* below width * height and pos(idx(p)) = p for every p that contains accepts;
\* contains(pos(i)) and idx(pos(i)) = i for every i below width * height; so
\* two points that contains accepts and that have the same index are equal.
C18_IdxPosInverse ==
  (width > 0 /\ call.op \in {"-", "update_states"}) =>
    LET inside == {p \in Points : contains(self, p)}
    IN /\ \A p \in inside :
            /\ idx(self, p) = width * p.y + p.x
            /\ idx(self, p) < width * height
            /\ pos(self, idx(self, p)) = p
       /\ \A i \in 0..(width * height - 1) :
            /\ pos(self, i) \in inside
            /\ idx(self, pos(self, i)) = i
       /\ \A p \in inside, q \in inside : idx(self, p) = idx(self, q) => p = q

\* A 3x2 grid that update_states has scanned: the last index, 5, is (2,1).
C18_Witness ==
  /\ width = 3 /\ height = 2
  /\ call.op = "update_states"
  /\ pos(self, 5) = Point(2, 1)
  /\ idx(self, Point(2, 1)) = 5

====
